---- MODULE Spec2Model ----
(***************************************************************************)
(* Model of client.py: the Jupyter front-end of the mu32 acquisition       *)
(* system.  The server front-end pairs the view gui_server (widgets and    *)
(* their enabled flags) with the controller array (delegate client,        *)
(* scalar attributes, button callbacks).  The delegate (MemsArrayWS), the  *)
(* asyncio event loop and the SSH client are external: their outcomes are  *)
(* nondeterministic inputs of the actions.  The playback front-end pairs  *)
(* the view gui_play with a second controller and its MemsArrayH5         *)
(* delegates.                                                              *)
(***************************************************************************)
EXTENDS Integers, Sequences, FiniteSets, TLC

VARIABLES
    gui,      \* the widgets of gui_server: values, disabled flags, visibility
    self,     \* the attributes of the array controller
    clients,  \* the MemsArrayWS delegates built so far; self.mu32 indexes it
    tasks,    \* the validateAcq_fct_settings tasks on the event loop
    ssh,      \* number of paramiko sessions that are open
    ret,      \* how the last call ended
    gui_play, \* the widgets of gui_play of the playback front-end
    player,   \* the attributes of the array('play') controller
    h5files   \* the MemsArrayH5 delegates built so far; player.mu32 indexes it

vars == <<gui, self, clients, tasks, ssh, ret, gui_play, player, h5files>>
\* the two front-ends are separate objects
server_vars == <<gui, self, clients, tasks, ssh>>
play_vars == <<gui_play, player, h5files>>

(* ---------------------------------------------------------------- bounds *)
\* number of delegate clients (Confirm clicks) built in one session
MaxClients == 2
\* number of SSH sessions that may be left open at the same time
MaxSsh == 1
\* number of files loaded in one playback session
MaxFiles == 3

(* ------------------------------------------------- inputs from the world *)
\* options of the array dropdown, plus one value outside them: the options
\* are a public attribute of the widget, and validateAcq_fct has an else
\* branch for such a value
ArrayOptions == {"F0", "F1", "F2", "F3"}
Selectors == ArrayOptions \cup {"F7"}
\* values the user may type in the password field (the IP and port fields
\* are left at their defaults)
Passwords == {"", "secret"}
\* settings the server may answer with
Settings == { [sampling_frequency |-> 20000, frame_length |-> 1024],
              [sampling_frequency |-> 50000, frame_length |-> 512] }
NoSettings == [sampling_frequency |-> 0, frame_length |-> 0]
\* failure raised by a call of the delegate
DelegateError == [t |-> "exc", v |-> "connection refused"]
\* buffers the delegate queue may deliver, and the delegate's sensibility
Samples == {2}
Sensibility == 3
\* output of `systemctl is-active`
ProbeOutputs == { <<"active\n">>, <<"inactive\n">>, <<"active">>, <<>> }
\* files the user may select, and what MemsArrayH5 reads from each
H5Files == {"a.h5", "b.h5"}
H5Content(filename) ==
    IF filename = "a.h5"
    THEN [sampling_frequency |-> 50000, file_duration |-> 12, mems |-> 8]
    ELSE [sampling_frequency |-> 20000, file_duration |-> 3, mems |-> 4]
\* texts the user may type in the blocksize field of the playback form
BlocksizeTexts == {"2048", "512", "4k"}

(* ------------------------------------------------------- python helpers *)
\* a python value is tagged: a str or an exception object
PyStrVal(s) == [t |-> "str", v |-> s]

\* str(e)
PyStr(x) == PyStrVal(x.v)

\* a + b on a str left operand: concatenation, or TypeError
PyAdd(a, b) ==
    IF a.t = "str" /\ b.t = "str"
    THEN [ok |-> TRUE, v |-> a.v \o b.v]
    ELSE [ok |-> FALSE, v |-> "TypeError"]

\* int(s) for the texts of the blocksize field: the number, or ValueError
PyInt(s) ==
    IF s = "2048" THEN [ok |-> TRUE, v |-> 2048]
    ELSE IF s = "512" THEN [ok |-> TRUE, v |-> 512]
    ELSE [ok |-> FALSE, v |-> 0]

\* [i for i in range(a, b)]
PyRange(a, b) == [i \in 1..(b - a) |-> a + i - 1]

\* how a call ended: the exception that left it ("none" if it returned), the
\* value returned, the line printed, the last view method it ran, the
\* remote command it executed and the external call that raised in it;
\* stdout holds the lines it read from the remote command
PyNone == <<>>
Outcome(op, exc, val, printed, view, command, failed) ==
    [op |-> op, exc |-> exc, val |-> val, printed |-> printed,
     view |-> view, command |-> command, failed |-> failed, stdout |-> <<>>]
Returned(op, view) == Outcome(op, "none", PyNone, "", view, "", "")
Raised(op, exc, view, failed) == Outcome(op, exc, PyNone, "", view, "", failed)

(* ------------------------------------------------------ gui_server view *)
gui_server_init ==
    [ ip_value |-> "10.3.141.1", ip_disabled |-> FALSE,
      port_value |-> "9002", port_disabled |-> FALSE,
      array_nb_value |-> "F0", array_nb_disabled |-> FALSE,
      fs_value |-> "", blocksize_value |-> "",
      button_connect_disabled |-> FALSE,
      status_value |-> "",
      button_startacq_disabled |-> TRUE,
      button_stopacq_disabled |-> TRUE,
      button_startrec_disabled |-> TRUE,
      button_stoprec_disabled |-> TRUE,
      button_sos_disabled |-> FALSE,
      status_sos_value |-> "Waiting...",
      button_start_srv_disabled |-> FALSE,
      button_stop_srv_disabled |-> FALSE,
      passwd_value |-> "",
      ligne4_visibility |-> "hidden" ]

update_status(g, message) == [g EXCEPT !.status_value = message]

ready_to_start(g, fs, blocksize) ==
    [g EXCEPT !.fs_value = ToString(fs),
              !.blocksize_value = ToString(blocksize),
              !.ip_disabled = TRUE,
              !.port_disabled = TRUE,
              !.array_nb_disabled = TRUE,
              !.button_connect_disabled = TRUE,
              !.button_startacq_disabled = FALSE,
              !.button_stopacq_disabled = TRUE,
              !.button_startrec_disabled = FALSE,
              !.button_stoprec_disabled = TRUE,
              !.status_value = "Ready to start acquisition."]

\* start_acq leaving the Start REC button as it is
start_acq_keeps_startrec(g) ==
    [g EXCEPT !.button_startacq_disabled = TRUE,
              !.button_stopacq_disabled = FALSE,
              !.button_stoprec_disabled = TRUE,
              !.status_value = "Acquisition started."]

start_acq(g) ==
    [g EXCEPT !.button_startacq_disabled = TRUE,
              !.button_stopacq_disabled = FALSE,
              !.button_startrec_disabled = TRUE,
              !.button_stoprec_disabled = TRUE,
              !.status_value = "Acquisition started."]

\* stop_acq going back to the connection form
stop_acq_to_idle(g) ==
    [g EXCEPT !.button_connect_disabled = FALSE,
              !.button_startacq_disabled = TRUE,
              !.button_stopacq_disabled = TRUE,
              !.button_startrec_disabled = TRUE,
              !.button_stoprec_disabled = TRUE,
              !.status_value = "Acquisition stopped."]

stop_acq(g) ==
    [g EXCEPT !.button_startacq_disabled = FALSE,
              !.button_stopacq_disabled = TRUE,
              !.button_startrec_disabled = FALSE,
              !.button_stoprec_disabled = TRUE,
              !.status_value = "Acquisition stopped."]

\* start_rec with the Start ACQ button forgotten
start_rec_keeps_startacq(g) ==
    [g EXCEPT !.button_stopacq_disabled = TRUE,
              !.button_startrec_disabled = TRUE,
              !.button_stoprec_disabled = FALSE,
              !.status_value = "Recording to file..."]

start_rec(g) ==
    [g EXCEPT !.button_startacq_disabled = TRUE,
              !.button_stopacq_disabled = TRUE,
              !.button_startrec_disabled = TRUE,
              !.button_stoprec_disabled = FALSE,
              !.status_value = "Recording to file..."]

stop_rec(g) ==
    [g EXCEPT !.button_startacq_disabled = FALSE,
              !.button_stopacq_disabled = TRUE,
              !.button_startrec_disabled = FALSE,
              !.button_stoprec_disabled = TRUE,
              !.status_value = "File saved."]

\* sos locking the three connection fields as well
sos_display_locks_inputs(g) ==
    [g EXCEPT !.fs_value = "",
              !.blocksize_value = "",
              !.ip_disabled = TRUE,
              !.port_disabled = TRUE,
              !.array_nb_disabled = TRUE,
              !.button_connect_disabled = TRUE,
              !.button_startacq_disabled = TRUE,
              !.button_startrec_disabled = TRUE,
              !.button_start_srv_disabled = TRUE,
              !.button_stop_srv_disabled = TRUE,
              !.status_value = "SOS mode. For admin only.",
              !.ligne4_visibility = "visible"]

\* sos with the Start REC button forgotten
sos_display_keeps_startrec(g) ==
    [g EXCEPT !.fs_value = "",
              !.blocksize_value = "",
              !.button_connect_disabled = TRUE,
              !.button_startacq_disabled = TRUE,
              !.button_start_srv_disabled = TRUE,
              !.button_stop_srv_disabled = TRUE,
              !.status_value = "SOS mode. For admin only.",
              !.ligne4_visibility = "visible"]

\* sos disabling the two stop buttons as well
sos_display_disables_stops(g) ==
    [g EXCEPT !.fs_value = "",
              !.blocksize_value = "",
              !.button_connect_disabled = TRUE,
              !.button_startacq_disabled = TRUE,
              !.button_stopacq_disabled = TRUE,
              !.button_startrec_disabled = TRUE,
              !.button_stoprec_disabled = TRUE,
              !.button_start_srv_disabled = TRUE,
              !.button_stop_srv_disabled = TRUE,
              !.status_value = "SOS mode. For admin only.",
              !.ligne4_visibility = "visible"]

\* first half of gui_server.sos, up to the status probe
sos_display(g) ==
    [g EXCEPT !.fs_value = "",
              !.blocksize_value = "",
              !.button_connect_disabled = TRUE,
              !.button_startacq_disabled = TRUE,
              !.button_startrec_disabled = TRUE,
              !.button_start_srv_disabled = TRUE,
              !.button_stop_srv_disabled = TRUE,
              !.status_value = "SOS mode. For admin only.",
              !.ligne4_visibility = "visible"]

\* the probe comparing the first line without its line end
sos_probe_stripped(g, srv) ==
    IF srv \in {<<"active\n">>, <<"active">>}
    THEN [g EXCEPT !.button_start_srv_disabled = TRUE,
                   !.button_stop_srv_disabled = FALSE,
                   !.status_sos_value = "Server = " \o "OK"]
    ELSE [g EXCEPT !.button_start_srv_disabled = FALSE,
                   !.button_stop_srv_disabled = TRUE,
                   !.status_sos_value = "Server = " \o "ERROR"]

\* second half of gui_server.sos: the probe output decides the admin buttons
sos_probe(g, srv) ==
    IF srv = <<"active\n">>
    THEN [g EXCEPT !.button_start_srv_disabled = TRUE,
                   !.button_stop_srv_disabled = FALSE,
                   !.status_sos_value = "Server = " \o "OK"]
    ELSE [g EXCEPT !.button_start_srv_disabled = FALSE,
                   !.button_stop_srv_disabled = TRUE,
                   !.status_sos_value = "Server = " \o "ERROR"]

(* ------------------------------------------------------ array controller *)
\* class attributes fs = 0, blocksize = 0; the other attributes do not exist
\* before their first assignment (0, <<>>, "unset")
array_init ==
    [ mu32 |-> 0, mems_list |-> <<>>, fs |-> 0, blocksize |-> 0,
      mems_nb |-> 0, interspace |-> "unset", m |-> <<>> ]

\* MemsArrayWS(host, port=port); fetched tells whether an async_settings
\* call on this delegate has published its settings
MemsArrayWS(host, port) ==
    [host |-> host, port |-> port, running |-> FALSE, h5 |-> FALSE,
     fetched |-> FALSE]

\* the chain with the last block one microphone short
MemsListOf_short(array_nb) ==
    IF array_nb = "F0" THEN PyRange(0, 8)
    ELSE IF array_nb = "F1" THEN PyRange(8, 16)
    ELSE IF array_nb = "F2" THEN PyRange(16, 24)
    ELSE IF array_nb = "F3" THEN PyRange(24, 31)
    ELSE <<>>

\* the if/elif chain of validateAcq_fct; <<>> is the else branch
MemsListOf(array_nb) ==
    IF array_nb = "F0" THEN PyRange(0, 8)
    ELSE IF array_nb = "F1" THEN PyRange(8, 16)
    ELSE IF array_nb = "F2" THEN PyRange(16, 24)
    ELSE IF array_nb = "F3" THEN PyRange(24, 32)
    ELSE <<>>

(* ------------------------------------------------------- view gui_play *)
\* gui_play.__init__
gui_play_init ==
    [ file_selected |-> "",
      fs_value |-> "",
      blocksize_value |-> "2048", blocksize_disabled |-> FALSE,
      button_startplay_disabled |-> TRUE,
      button_stopplay_disabled |-> TRUE,
      status_value |-> "" ]

update_data_info(g, fs, duration) ==
    [g EXCEPT !.fs_value = fs,
              !.blocksize_disabled = FALSE,
              !.button_startplay_disabled = FALSE,
              !.button_stopplay_disabled = TRUE,
              !.status_value = "File duration = " \o duration \o "s."]

start_read(g) ==
    [g EXCEPT !.blocksize_disabled = TRUE,
              !.button_startplay_disabled = TRUE,
              !.button_stopplay_disabled = FALSE,
              !.status_value = "Reading file"]

\* stop_read leaving the blocksize field locked
stop_read_keeps_lock(g) ==
    [g EXCEPT !.button_startplay_disabled = FALSE,
              !.button_stopplay_disabled = TRUE,
              !.status_value = "Reading stopped"]

stop_read(g) ==
    [g EXCEPT !.blocksize_disabled = FALSE,
              !.button_startplay_disabled = FALSE,
              !.button_stopplay_disabled = TRUE,
              !.status_value = "Reading stopped"]

\* array('play') after construction: fs and blocksize are class attributes,
\* the others are not set yet; mu32 = 0 stands for no delegate
player_init ==
    [ mu32 |-> 0, filename |-> "", fs |-> 0, file_duration |-> 0,
      interspace |-> "unset", blocksize |-> 0, mems_nb |-> 0 ]

\* MemsArrayH5(filename=filename)
MemsArrayH5(filename) ==
    [filename |-> filename,
     sampling_frequency |-> H5Content(filename).sampling_frequency,
     file_duration |-> H5Content(filename).file_duration,
     mems |-> H5Content(filename).mems,
     running |-> FALSE]

Init ==
    /\ gui = gui_server_init
    /\ self = array_init
    /\ clients = <<>>
    /\ tasks = <<>>
    /\ ssh = 0
    /\ ret = Returned("__init__", "__init__")
    /\ gui_play = gui_play_init
    /\ player = player_init
    /\ h5files = <<>>

(* ---------------------------------------------------- the user's inputs *)
\* the user picks an entry of the array dropdown
SelectArray(a) ==
    /\ ~gui.array_nb_disabled
    /\ a # gui.array_nb_value
    /\ gui' = [gui EXCEPT !.array_nb_value = a]
    /\ UNCHANGED <<self, clients, tasks, ssh, ret, play_vars>>

\* the user types in the password field of the admin row
EditPasswd(p) ==
    /\ gui.ligne4_visibility = "visible"
    /\ p # gui.passwd_value
    /\ gui' = [gui EXCEPT !.passwd_value = p]
    /\ UNCHANGED <<self, clients, tasks, ssh, ret, play_vars>>

(* ------------------------------------------------ connecting (Confirm) *)
\* click on Confirm
validateAcq_fct ==
    /\ ~gui.button_connect_disabled
    /\ Len(clients) < MaxClients
    /\ clients' = Append(clients, MemsArrayWS(gui.ip_value, gui.port_value))
    /\ IF gui.array_nb_value \in {"F0", "F1", "F2", "F3"}
       THEN /\ self' = [self EXCEPT !.mu32 = Len(clients) + 1,
                                    !.mems_list = MemsListOf(gui.array_nb_value)]
            /\ tasks' = Append(tasks, [state |-> "created", client |-> 0,
                                       settings |-> NoSettings])
            /\ ret' = Returned("validateAcq_fct", "")
       ELSE /\ self' = [self EXCEPT !.mu32 = Len(clients) + 1]
            /\ tasks' = tasks
            /\ ret' = Outcome("validateAcq_fct", "none", PyNone,
                              "ERROR: bad array number selected.", "", "", "")
    /\ UNCHANGED <<gui, ssh, play_vars>>

\* first step of the task validateAcq_fct_settings: the future is created and
\* async_settings is launched on the delegate the controller holds now
TaskStart(i) ==
    /\ tasks[i].state = "created"
    /\ tasks' = [tasks EXCEPT ![i].state = "awaiting", ![i].client = self.mu32]
    /\ UNCHANGED <<gui, self, clients, ssh, ret, play_vars>>

\* the delegate publishes the settings into the future
FutureResolve(i, s) ==
    /\ tasks[i].state = "awaiting"
    /\ tasks' = [tasks EXCEPT ![i].state = "resolved", ![i].settings = s]
    /\ clients' = [clients EXCEPT ![tasks[i].client].fetched = TRUE]
    /\ UNCHANGED <<gui, self, ssh, ret, play_vars>>

\* the future is completed with an exception: the await raises in the task
FutureFail(i) ==
    /\ tasks[i].state = "awaiting"
    /\ tasks' = [tasks EXCEPT ![i] = [state |-> "failed", client |-> 0,
                                      settings |-> NoSettings]]
    /\ UNCHANGED <<gui, self, clients, ssh, ret, play_vars>>

\* validateAcq_fct_settings going on without the await: settings is not there
TaskResume_no_await(i) ==
    /\ tasks[i].state \in {"awaiting", "resolved"}
    /\ tasks' = [tasks EXCEPT ![i] = [state |-> "done", client |-> 0,
                                      settings |-> NoSettings]]
    /\ self' = [self EXCEPT !.fs = tasks[i].settings.sampling_frequency,
                            !.blocksize = tasks[i].settings.frame_length,
                            !.mems_nb = Len(self.mems_list),
                            !.interspace = "0.06"]
    /\ gui' = ready_to_start(gui, self'.fs, self'.blocksize)
    /\ ret' = Returned("validateAcq_fct_settings", "ready_to_start")
    /\ UNCHANGED <<clients, ssh, play_vars>>

\* validateAcq_fct_settings after the await
TaskResume(i) ==
    /\ tasks[i].state = "resolved"
    /\ tasks' = [tasks EXCEPT ![i] = [state |-> "done", client |-> 0,
                                      settings |-> NoSettings]]
    /\ self' = [self EXCEPT !.fs = tasks[i].settings.sampling_frequency,
                            !.blocksize = tasks[i].settings.frame_length,
                            !.mems_nb = Len(self.mems_list),
                            !.interspace = "0.06"]
    /\ gui' = ready_to_start(gui, self'.fs, self'.blocksize)
    /\ ret' = Returned("validateAcq_fct_settings", "ready_to_start")
    /\ UNCHANGED <<clients, ssh, play_vars>>

(* ------------------------------------------- acquisition and recording *)
\* self.mu32.<call>() on the delegate the controller holds; ok is whether
\* the delegate completes the call or raises
DelegateRun(cs, c, ok) == IF ok THEN [cs EXCEPT ![c].running = TRUE] ELSE cs
DelegateHalt(cs, c, ok) == IF ok THEN [cs EXCEPT ![c].running = FALSE] ELSE cs
DelegateH5Start(cs, c, ok) == IF ok THEN [cs EXCEPT ![c].h5 = TRUE] ELSE cs
DelegateH5Stop(cs, c, ok) == IF ok THEN [cs EXCEPT ![c].h5 = FALSE] ELSE cs

\* startacq_fct flipping the view before the delegate is called
startacq_fct_view_first(runOk) ==
    /\ ~gui.button_startacq_disabled
    /\ clients' = DelegateRun(clients, self.mu32, runOk)
    /\ IF runOk
       THEN /\ gui' = start_acq(gui)
            /\ ret' = Returned("startacq_fct", "start_acq")
       ELSE /\ gui' = update_status(start_acq(gui),
                                    "Aborting: " \o DelegateError.v)
            /\ ret' = Outcome("startacq_fct", "none", PyNone, "",
                              "update_status", "", "run")
    /\ UNCHANGED <<self, tasks, ssh, play_vars>>

\* click on Start ACQ
startacq_fct(runOk) ==
    /\ ~gui.button_startacq_disabled
    /\ clients' = DelegateRun(clients, self.mu32, runOk)
    /\ IF runOk
       THEN /\ gui' = start_acq(gui)
            /\ ret' = Returned("startacq_fct", "start_acq")
       ELSE LET msg == PyAdd(PyStrVal("Aborting: "), PyStr(DelegateError))
            IN  IF msg.ok
                THEN /\ gui' = update_status(gui, msg.v)
                     /\ ret' = Outcome("startacq_fct", "none", PyNone, "",
                                       "update_status", "", "run")
                ELSE /\ gui' = gui
                     /\ ret' = Raised("startacq_fct", msg.v, "", "run")
    /\ UNCHANGED <<self, tasks, ssh, play_vars>>

\* click on Stop ACQ
stopacq_fct(haltOk) ==
    /\ ~gui.button_stopacq_disabled
    /\ clients' = DelegateHalt(clients, self.mu32, haltOk)
    /\ IF haltOk
       THEN /\ gui' = stop_acq(gui)
            /\ ret' = Returned("stopacq_fct", "stop_acq")
       ELSE /\ gui' = gui
            /\ ret' = Raised("stopacq_fct", "Exception", "", "halt")
    /\ UNCHANGED <<self, tasks, ssh, play_vars>>

\* click on Start Recording: the view is flipped first, then run, h5_start
startrec_fct(runOk, h5Ok) ==
    /\ ~gui.button_startrec_disabled
    /\ clients' = LET cs == DelegateRun(clients, self.mu32, runOk)
                  IN  IF runOk THEN DelegateH5Start(cs, self.mu32, h5Ok) ELSE cs
    /\ IF runOk /\ h5Ok
       THEN /\ gui' = start_rec(gui)
            /\ ret' = Returned("startrec_fct", "start_rec")
       ELSE LET msg == PyAdd(PyStrVal("Aborting: "), DelegateError)
                failed == IF runOk THEN "h5_start" ELSE "run"
            IN  IF msg.ok
                THEN /\ gui' = update_status(start_rec(gui), msg.v)
                     /\ ret' = Outcome("startrec_fct", "none", PyNone, "",
                                       "update_status", "", failed)
                ELSE /\ gui' = start_rec(gui)
                     /\ ret' = Raised("startrec_fct", msg.v, "start_rec", failed)
    /\ UNCHANGED <<self, tasks, ssh, play_vars>>

\* click on Stop recording
stoprec_fct(h5Ok, haltOk) ==
    /\ ~gui.button_stoprec_disabled
    /\ clients' = LET cs == DelegateH5Stop(clients, self.mu32, h5Ok)
                  IN  IF h5Ok THEN DelegateHalt(cs, self.mu32, haltOk) ELSE cs
    /\ IF h5Ok /\ haltOk
       THEN /\ gui' = stop_rec(gui)
            /\ ret' = Returned("stoprec_fct", "stop_rec")
       ELSE /\ gui' = gui
            /\ ret' = Raised("stoprec_fct", "Exception", "",
                             IF h5Ok THEN "halt" ELSE "h5_stop")
    /\ UNCHANGED <<self, tasks, ssh, play_vars>>

\* read dropping the last-known buffer when the queue stays empty
read_clears_m(got) ==
    IF self.mu32 = 0
    THEN /\ ret' = Raised("read", "AttributeError", "", "")
         /\ UNCHANGED <<gui, self, clients, tasks, ssh, play_vars>>
    ELSE IF got = <<>>
    THEN /\ gui' = update_status(gui, "ERROR: No data available")
         /\ self' = [self EXCEPT !.m = PyNone]
         /\ ret' = Outcome("read", "none", PyNone, "", "update_status", "",
                           "signal_q.get")
         /\ UNCHANGED <<clients, tasks, ssh, play_vars>>
    ELSE /\ self' = [self EXCEPT !.m = <<got[1] * Sensibility>>]
         /\ ret' = Outcome("read", "none", self'.m, "", "", "", "")
         /\ UNCHANGED <<gui, clients, tasks, ssh, play_vars>>

\* array.read(), called from a notebook cell; got is what signal_q.get
\* delivers within the timeout: <<>> when the queue stays empty
read(got) ==
    IF self.mu32 = 0
    THEN /\ ret' = Raised("read", "AttributeError", "", "")
         /\ UNCHANGED <<gui, self, clients, tasks, ssh, play_vars>>
    ELSE IF got = <<>>
    THEN /\ gui' = update_status(gui, "ERROR: No data available")
         /\ ret' = Outcome("read", "none", PyNone, "", "update_status", "",
                           "signal_q.get")
         /\ UNCHANGED <<self, clients, tasks, ssh, play_vars>>
    ELSE /\ self' = [self EXCEPT !.m = <<got[1] * Sensibility>>]
         /\ ret' = Outcome("read", "none", self'.m, "", "", "", "")
         /\ UNCHANGED <<gui, clients, tasks, ssh, play_vars>>

(* ---------------------------------------------------------- SOS / admin *)
\* click on SOS: gui_server.sos.  connectOk, execOk: whether the SSH calls
\* complete; srv: the lines read from the status command
sos(connectOk, execOk, srv) ==
    /\ ~gui.button_sos_disabled
    /\ IF ~connectOk
       THEN /\ gui' = sos_display(gui)
            /\ ssh' = ssh
            /\ ret' = Raised("sos", "SSHException", "sos", "connect")
       ELSE IF ~execOk
       THEN /\ ssh < MaxSsh
            /\ gui' = sos_display(gui)
            /\ ssh' = ssh + 1
            /\ ret' = Raised("sos", "SSHException", "sos", "exec_command")
       ELSE /\ gui' = sos_probe(sos_display(gui), srv)
            /\ ssh' = ssh
            /\ ret' = [Outcome("sos", "none", PyNone, "", "sos",
                               "systemctl is-active megamicros_server.service",
                               "") EXCEPT !.stdout = srv]
    /\ UNCHANGED <<self, clients, tasks, play_vars>>

\* the admin buttons and their labels
AdminButtons == {"ADMIN: Start server", "ADMIN: Stop server"}
AdminEnabled(g, description) ==
    /\ g.ligne4_visibility = "visible"
    /\ IF description = "ADMIN: Start server"
       THEN ~g.button_start_srv_disabled
       ELSE ~g.button_stop_srv_disabled

\* the branch of sos_fct on button.description
sos_command(description) ==
    IF description = "ADMIN: Stop server" THEN "systemctl stop megamicros_server"
    ELSE IF description = "ADMIN: Start server" THEN "systemctl start megamicros_server"
    ELSE "ls"
\* the Start branch with the flags of the Stop branch
sos_buttons_same_flags(g, description) ==
    IF description \in {"ADMIN: Stop server", "ADMIN: Start server"}
    THEN [g EXCEPT !.button_start_srv_disabled = FALSE,
                   !.button_stop_srv_disabled = TRUE]
    ELSE g

\* the admin flags sos_fct assigns before exec_command
sos_buttons(g, description) ==
    IF description = "ADMIN: Stop server"
    THEN [g EXCEPT !.button_start_srv_disabled = FALSE,
                   !.button_stop_srv_disabled = TRUE]
    ELSE IF description = "ADMIN: Start server"
    THEN [g EXCEPT !.button_start_srv_disabled = TRUE,
                   !.button_stop_srv_disabled = FALSE]
    ELSE g

\* sos_fct going on to the SSH session whatever the password field holds
sos_fct_no_gate(description, connectOk, execOk) ==
    /\ AdminEnabled(gui, description)
    /\ IF ~connectOk
       THEN /\ ret' = Raised("sos_fct", "SSHException", "", "connect")
            /\ UNCHANGED <<gui, ssh>>
       ELSE IF ~execOk
       THEN /\ ssh < MaxSsh
            /\ gui' = sos_buttons(gui, description)
            /\ ssh' = ssh + 1
            /\ ret' = Raised("sos_fct", "SSHException", "", "exec_command")
       ELSE /\ gui' = sos_buttons(gui, description)
            /\ ssh' = ssh
            /\ ret' = Outcome("sos_fct", "none", PyNone, "", "",
                              sos_command(description), "")
    /\ UNCHANGED <<self, clients, tasks, play_vars>>

\* click on an admin button: array.sos_fct
sos_fct(description, connectOk, execOk) ==
    /\ AdminEnabled(gui, description)
    /\ IF gui.passwd_value = ""
       THEN /\ ret' = Outcome("sos_fct", "none", PyNone,
                   "ERROR: please indicate the password to launch the command.",
                   "", "", "")
            /\ UNCHANGED <<gui, ssh>>
       ELSE IF ~connectOk
       THEN /\ ret' = Raised("sos_fct", "SSHException", "", "connect")
            /\ UNCHANGED <<gui, ssh>>
       ELSE IF ~execOk
       THEN /\ ssh < MaxSsh
            /\ gui' = sos_buttons(gui, description)
            /\ ssh' = ssh + 1
            /\ ret' = Raised("sos_fct", "SSHException", "", "exec_command")
       ELSE /\ gui' = sos_buttons(gui, description)
            /\ ssh' = ssh
            /\ ret' = Outcome("sos_fct", "none", PyNone, "", "",
                              sos_command(description), "")
    /\ UNCHANGED <<self, clients, tasks, play_vars>>

\* the asynchronous settings fetch: the steps of the event loop
FetchSettings ==
    \/ \E i \in 1..Len(tasks) : TaskStart(i)
    \/ \E i \in 1..Len(tasks), s \in Settings : FutureResolve(i, s)
    \/ \E i \in 1..Len(tasks) : FutureFail(i)
    \/ \E i \in 1..Len(tasks) : TaskResume(i)

\* a session on the primary row of buttons, SOS included, with the array
\* dropdown left at its default
Next ==
    \/ validateAcq_fct
    \/ FetchSettings
    \/ \E runOk \in BOOLEAN : startacq_fct(runOk)
    \/ \E haltOk \in BOOLEAN : stopacq_fct(haltOk)
    \/ \E runOk \in BOOLEAN, h5Ok \in BOOLEAN : startrec_fct(runOk, h5Ok)
    \/ \E h5Ok \in BOOLEAN, haltOk \in BOOLEAN : stoprec_fct(h5Ok, haltOk)
    \/ \E connectOk \in BOOLEAN, execOk \in BOOLEAN :
          \E srv \in (IF connectOk /\ execOk THEN ProbeOutputs ELSE {<<>>}) :
             sos(connectOk, execOk, srv)

Spec == Init /\ [][Next]_vars

\* connecting only: the user picks arrays and clicks Confirm
NextConnect ==
    \/ \E a \in Selectors : SelectArray(a)
    \/ validateAcq_fct
    \/ FetchSettings

SpecConnect == Init /\ [][NextConnect]_vars

\* acquisition with buffer reads from notebook cells
NextRead ==
    \/ validateAcq_fct
    \/ FetchSettings
    \/ \E runOk \in BOOLEAN : startacq_fct(runOk)
    \/ \E haltOk \in BOOLEAN : stopacq_fct(haltOk)
    \/ \E got \in {<<>>} \cup {<<x>> : x \in Samples} : read(got)

SpecRead == Init /\ [][NextRead]_vars

\* the admin row: SOS, the password field and the two admin buttons
NextAdmin ==
    \/ \E p \in Passwords : EditPasswd(p)
    \/ validateAcq_fct
    \/ FetchSettings
    \/ \E connectOk \in BOOLEAN, execOk \in BOOLEAN :
          \E srv \in (IF connectOk /\ execOk THEN ProbeOutputs ELSE {<<>>}) :
             sos(connectOk, execOk, srv)
    \/ \E d \in AdminButtons, connectOk \in BOOLEAN, execOk \in BOOLEAN :
          sos_fct(d, connectOk, execOk)

SpecAdmin == Init /\ [][NextAdmin]_vars

\* every operation of the server front-end, with at most MaxConnects clicks
\* on Confirm and a server that always answers with the same settings
MaxConnects == 1
ServerSettings == [sampling_frequency |-> 20000, frame_length |-> 1024]
NextServer ==
    \/ \E p \in Passwords : EditPasswd(p)
    \/ Len(clients) < MaxConnects /\ validateAcq_fct
    \/ \E i \in 1..Len(tasks) : TaskStart(i)
    \/ \E i \in 1..Len(tasks) : FutureResolve(i, ServerSettings)
    \/ \E i \in 1..Len(tasks) : FutureFail(i)
    \/ \E i \in 1..Len(tasks) : TaskResume(i)
    \/ \E runOk \in BOOLEAN : startacq_fct(runOk)
    \/ \E haltOk \in BOOLEAN : stopacq_fct(haltOk)
    \/ \E runOk \in BOOLEAN, h5Ok \in BOOLEAN : startrec_fct(runOk, h5Ok)
    \/ \E h5Ok \in BOOLEAN, haltOk \in BOOLEAN : stoprec_fct(h5Ok, haltOk)
    \/ \E got \in {<<>>} \cup {<<x>> : x \in Samples} : read(got)
    \/ \E connectOk \in BOOLEAN, execOk \in BOOLEAN :
          \E srv \in (IF connectOk /\ execOk THEN ProbeOutputs ELSE {<<>>}) :
             sos(connectOk, execOk, srv)
    \/ \E d \in AdminButtons, connectOk \in BOOLEAN, execOk \in BOOLEAN :
          sos_fct(d, connectOk, execOk)

SpecServer == Init /\ [][NextServer]_vars

(* ---------------------------------------------------- playback front-end *)
\* the user types a block size while the field is enabled
EditBlocksize(v) ==
    /\ ~gui_play.blocksize_disabled
    /\ gui_play' = [gui_play EXCEPT !.blocksize_value = v]
    /\ UNCHANGED <<player, h5files, ret, server_vars>>

\* loadFile_fct stopping the delegate it replaces
loadFile_fct_stops_old(file, ok) ==
    /\ Len(h5files) < MaxFiles
    /\ IF ok
       THEN /\ h5files' = Append(
                   [i \in 1..Len(h5files) |->
                       [h5files[i] EXCEPT !.running = FALSE]],
                   MemsArrayH5(file))
            /\ player' = [player EXCEPT
                   !.filename = file,
                   !.mu32 = Len(h5files) + 1,
                   !.fs = MemsArrayH5(file).sampling_frequency,
                   !.file_duration = MemsArrayH5(file).file_duration,
                   !.interspace = "0.06"]
            /\ gui_play' = update_data_info(
                   [gui_play EXCEPT !.file_selected = file],
                   ToString(player'.fs), ToString(player'.file_duration))
            /\ ret' = Returned("loadFile_fct", "update_data_info")
       ELSE /\ player' = [player EXCEPT !.filename = file]
            /\ gui_play' = [gui_play EXCEPT !.file_selected = file]
            /\ ret' = Raised("loadFile_fct", "Exception", "", "MemsArrayH5")
            /\ UNCHANGED h5files
    /\ UNCHANGED server_vars

\* a file is selected in the FileChooser: array.loadFile_fct.  ok: whether
\* MemsArrayH5 can open the file
loadFile_fct(file, ok) ==
    /\ Len(h5files) < MaxFiles
    /\ IF ok
       THEN /\ h5files' = Append(h5files, MemsArrayH5(file))
            /\ player' = [player EXCEPT
                   !.filename = file,
                   !.mu32 = Len(h5files) + 1,
                   !.fs = MemsArrayH5(file).sampling_frequency,
                   !.file_duration = MemsArrayH5(file).file_duration,
                   !.interspace = "0.06"]
            /\ gui_play' = update_data_info(
                   [gui_play EXCEPT !.file_selected = file],
                   ToString(player'.fs), ToString(player'.file_duration))
            /\ ret' = Returned("loadFile_fct", "update_data_info")
       ELSE /\ player' = [player EXCEPT !.filename = file]
            /\ gui_play' = [gui_play EXCEPT !.file_selected = file]
            /\ ret' = Raised("loadFile_fct", "Exception", "", "MemsArrayH5")
            /\ UNCHANGED h5files
    /\ UNCHANGED server_vars

\* click on Play file: array.play_fct
play_fct(runOk) ==
    /\ ~gui_play.button_startplay_disabled
    /\ IF ~PyInt(gui_play.blocksize_value).ok
       THEN /\ ret' = Raised("play_fct", "ValueError", "", "int")
            /\ UNCHANGED <<gui_play, player, h5files>>
       ELSE /\ player' = [player EXCEPT
                   !.blocksize = PyInt(gui_play.blocksize_value).v,
                   !.mems_nb = h5files[player.mu32].mems]
            /\ IF runOk
               THEN /\ h5files' = [h5files EXCEPT ![player.mu32].running = TRUE]
                    /\ gui_play' = start_read(gui_play)
                    /\ ret' = Returned("play_fct", "start_read")
               ELSE /\ ret' = Raised("play_fct", "Exception", "", "run")
                    /\ UNCHANGED <<gui_play, h5files>>
    /\ UNCHANGED server_vars

\* click on Stop: array.stopplay_fct
stopplay_fct(stopOk) ==
    /\ ~gui_play.button_stopplay_disabled
    /\ IF stopOk
       THEN /\ h5files' = [h5files EXCEPT ![player.mu32].running = FALSE]
            /\ gui_play' = stop_read(gui_play)
            /\ ret' = Returned("stopplay_fct", "stop_read")
       ELSE /\ ret' = Raised("stopplay_fct", "Exception", "", "stop")
            /\ UNCHANGED <<gui_play, h5files>>
    /\ UNCHANGED <<player, server_vars>>

\* a session on the playback form
NextPlay ==
    \/ \E v \in BlocksizeTexts : EditBlocksize(v)
    \/ \E file \in H5Files, ok \in BOOLEAN : loadFile_fct(file, ok)
    \/ \E runOk \in BOOLEAN : play_fct(runOk)
    \/ \E stopOk \in BOOLEAN : stopplay_fct(stopOk)

SpecPlay == Init /\ [][NextPlay]_vars

(* ================================================================ claims *)
\* enabled-state of <<Connect, StartAcq, StopAcq, StartRec, StopRec>>
Buttons(g) ==
    << ~g.button_connect_disabled, ~g.button_startacq_disabled,
       ~g.button_stopacq_disabled, ~g.button_startrec_disabled,
       ~g.button_stoprec_disabled >>
IdleRow == <<TRUE, FALSE, FALSE, FALSE, FALSE>>
ReadyToStartRow == <<FALSE, TRUE, FALSE, TRUE, FALSE>>
AcquiringRow == <<FALSE, FALSE, TRUE, FALSE, FALSE>>
RecordingRow == <<FALSE, FALSE, FALSE, FALSE, TRUE>>
\* the row of the transition table a view operation leads to
RowOf(view) ==
    IF view = "__init__" THEN IdleRow
    ELSE IF view = "start_acq" THEN AcquiringRow
    ELSE IF view = "start_rec" THEN RecordingRow
    ELSE ReadyToStartRow
TableOps == {"__init__", "ready_to_start", "start_acq", "stop_acq",
             "start_rec", "stop_rec"}
\* SOS has been pressed: only gui_server.sos reveals the admin row
SosPressed == gui.ligne4_visibility = "visible"
\* ready_to_start has been executed: a settings task ran to its end
ReadyRan == \E i \in 1..Len(tasks) : tasks[i].state = "done"
\* number of tasks that ran to their end
RtsRuns == Cardinality({i \in 1..Len(tasks) : tasks[i].state = "done"})
ConnInputsDisabled ==
    /\ gui.ip_disabled
    /\ gui.port_disabled
    /\ gui.array_nb_disabled
    /\ gui.button_connect_disabled

\* C1: as long as SOS has not been pressed, the state left by each view
\* operation of the table (and by the constructor) shows the five buttons
\* enabled exactly as the table's row for that operation says.
C1_ViewFollowsTable ==
    (~SosPressed /\ ret.view \in TableOps) => Buttons(gui) = RowOf(ret.view)
\* an acquisition has been started and the view shows the Acquiring row
C1_Witness ==
    /\ ~SosPressed
    /\ ret.view = "start_acq"
    /\ Buttons(gui) = AcquiringRow
    /\ gui.status_value = "Acquisition started."

\* C2: the IP field, the port field, the array selector and Confirm are all
\* disabled exactly when ready_to_start has been executed, SOS or not.
C2_InputsLockedIffReady == ConnInputsDisabled <=> ReadyRan
\* SOS was pressed before the settings came back, and the late
\* ready_to_start locked the inputs
C2_Witness ==
    /\ SosPressed
    /\ ReadyRan
    /\ ConnInputsDisabled
    /\ gui.fs_value # ""

\* C3: the view has left Idle through ready_to_start only if a settings task
\* ran to its end, and the step that runs ready_to_start is the step of a
\* task whose future is resolved, leaving the fetched sampling_frequency and
\* frame_length in fs and blocksize and on display.
C3_ReadyStep ==
    \/ RtsRuns' # RtsRuns
    \/ /\ gui'.status_value = "Ready to start acquisition."
       /\ gui.status_value # "Ready to start acquisition."
C3_ReadyAfterFetch ==
    /\ [](gui.ip_disabled =>
            /\ ReadyRan
            /\ \E s \in Settings : /\ self.fs = s.sampling_frequency
                                   /\ self.blocksize = s.frame_length)
    /\ [][C3_ReadyStep =>
            \E i \in 1..Len(tasks) :
               /\ tasks[i].state = "resolved"
               /\ tasks'[i].state = "done"
               /\ tasks[i].settings \in Settings
               /\ self'.fs = tasks[i].settings.sampling_frequency
               /\ self'.blocksize = tasks[i].settings.frame_length
               /\ gui'.fs_value = ToString(tasks[i].settings.sampling_frequency)
               /\ gui'.blocksize_value = ToString(tasks[i].settings.frame_length)
               /\ Buttons(gui') = ReadyToStartRow]_vars
\* ready_to_start has just run on the second of the two settings, while
\* another fetch is still pending
C3_Witness ==
    /\ ret.view = "ready_to_start"
    /\ self.fs = 50000
    /\ gui.blocksize_value = "512"
    /\ \E i \in 1..Len(tasks) : tasks[i].state = "awaiting"

\* C4: validateAcq_fct runs at most once in a session: one delegate client is
\* ever constructed and one settings fetch is ever launched.
C4_ConnectOnce == Len(clients) <= 1 /\ Len(tasks) <= 1

\* C5: whenever stoprec_fct has ended, by returning or by raising, Start ACQ
\* and Start Recording are enabled and Stop ACQ and Stop recording disabled.
C5_StopRecReenables ==
    ret.op = "stoprec_fct" =>
        /\ ~gui.button_startacq_disabled
        /\ ~gui.button_startrec_disabled
        /\ gui.button_stopacq_disabled
        /\ gui.button_stoprec_disabled

\* C6: when run or h5_start fails in startrec_fct, the callback returns
\* without raising, the status text reports the failure and the view shows
\* the Recording row.
C6_StartRecFailureReported ==
    (ret.op = "startrec_fct" /\ ret.failed \in {"run", "h5_start"}) =>
        /\ ret.exc = "none"
        /\ gui.status_value = "Aborting: " \o DelegateError.v
        /\ Buttons(gui) = RecordingRow

\* C7: a step of startacq_fct in which run fails changes nothing of the view
\* but the status text, which becomes the failure string; the view is still
\* in the ReadyToStart row and the callback returns without raising.
C7_StartAcqFailureKeepsView ==
    [][(ret'.op = "startacq_fct" /\ ret'.failed = "run") =>
          /\ gui' = [gui EXCEPT !.status_value = "Aborting: connection refused"]
          /\ Buttons(gui') = ReadyToStartRow
          /\ ret'.exc = "none"
          /\ self' = self]_vars
\* run has just failed in startacq_fct
C7_Witness ==
    /\ ret.op = "startacq_fct"
    /\ ret.failed = "run"
    /\ gui.status_value = "Aborting: connection refused"
    /\ ~gui.button_startacq_disabled

\* a step of validateAcq_fct: it constructs one more delegate
C8_ValidateStep == Len(clients') = Len(clients) + 1
\* C8: a step of validateAcq_fct with a selector outside F0..F3 assigns no
\* attribute of the controller, launches no settings fetch and changes
\* nothing of the view.
C8_BadSelectorNoChange ==
    [][(C8_ValidateStep /\ gui.array_nb_value \notin {"F0", "F1", "F2", "F3"}) =>
          /\ self' = self
          /\ tasks' = tasks
          /\ gui' = gui]_vars

\* C9: a step of validateAcq_fct with selector Fk, k in 0..3, leaves the
\* microphone list equal to <<8k, 8k+1, ..., 8k+7>>.
C9_MemsBlock ==
    [][\A k \in 0..3 :
          (C8_ValidateStep /\ gui.array_nb_value = "F" \o ToString(k)) =>
              self'.mems_list = [i \in 1..8 |-> 8 * k + i - 1]]_vars
\* Confirm has just been clicked with F3 selected
C9_Witness ==
    /\ ret.op = "validateAcq_fct"
    /\ gui.array_nb_value = "F3"
    /\ self.mu32 = Len(clients)
    /\ self.mems_list = <<24, 25, 26, 27, 28, 29, 30, 31>>

\* a step of read in which the queue wait times out
C10_ReadTimeoutStep ==
    /\ ret'.op = "read"
    /\ ret'.failed = "signal_q.get"
    /\ (ret' # ret \/ gui' # gui)
\* C10: a read whose queue wait times out returns None without raising and
\* changes nothing but the status text, which becomes the error message: the
\* buffer attribute m keeps its value.
C10_ReadTimeoutFrame ==
    [][C10_ReadTimeoutStep =>
          /\ self'.m = self.m
          /\ self' = self
          /\ clients' = clients
          /\ tasks' = tasks
          /\ ssh' = ssh
          /\ gui' = [gui EXCEPT !.status_value = "ERROR: No data available"]
          /\ ret'.exc = "none"
          /\ ret'.val = PyNone]_vars
\* a buffer had been read before the read that timed out
C10_Witness ==
    /\ ret.op = "read"
    /\ ret.failed = "signal_q.get"
    /\ self.m = <<Sensibility * 2>>
    /\ gui.status_value = "ERROR: No data available"

\* C11: a status probe that completed shows 'Server = OK' with stop-server
\* enabled and start-server disabled when the lines read are exactly
\* <<"active\n">>, and 'Server = ERROR' with start-server enabled and
\* stop-server disabled for any other output, the empty one included.
C11_ProbeMapping ==
    (ret.op = "sos" /\ ret.exc = "none") =>
        IF ret.stdout = <<"active\n">>
        THEN /\ gui.status_sos_value = "Server = OK"
             /\ gui.button_start_srv_disabled
             /\ ~gui.button_stop_srv_disabled
        ELSE /\ gui.status_sos_value = "Server = ERROR"
             /\ ~gui.button_start_srv_disabled
             /\ gui.button_stop_srv_disabled
\* the probe read a line that is not exactly "active\n"
C11_Witness ==
    /\ ret.op = "sos"
    /\ ret.exc = "none"
    /\ ret.stdout = <<"active">>
    /\ gui.status_sos_value = "Server = ERROR"
    /\ ~gui.button_start_srv_disabled

\* C12: there is no way back to Idle: once the Confirm button is disabled, no
\* operation of the server front-end (view methods, controller callbacks, SOS
\* and admin actions) enables it again.
C12_ConfirmStaysDisabled ==
    [][gui.button_connect_disabled => gui'.button_connect_disabled]_vars
\* Confirm is still disabled after an acquisition was stopped and the admin
\* row was used
C12_Witness ==
    /\ gui.button_connect_disabled
    /\ SosPressed
    /\ ReadyRan
    /\ ret.op = "stopacq_fct"
    /\ ret.exc = "none"

\* C13: a callback that calls run on the delegate (startacq_fct, startrec_fct)
\* does so on a delegate whose settings fetch has completed.
C13_RunAfterFetch ==
    ret.op \in {"startacq_fct", "startrec_fct"} =>
        clients[self.mu32].fetched

\* C14 as stated: Start REC is enabled only in states where an acquisition is
\* in progress, the view showing Acquiring and the delegate running.
C14_StartRecOnlyWhileAcquiring ==
    ~gui.button_startrec_disabled =>
        /\ Buttons(gui) = AcquiringRow
        /\ self.mu32 # 0
        /\ clients[self.mu32].running
\* C14 amended: Start REC is enabled only in the ReadyToStart row, after a
\* settings fetch ran to its end, together with Start ACQ and with Stop ACQ
\* and Stop REC disabled; it is never enabled while the view shows Acquiring.
C14_StartRecOnlyWhenReady ==
    ~gui.button_startrec_disabled =>
        /\ Buttons(gui) = ReadyToStartRow
        /\ ReadyRan
        /\ self.mu32 # 0
\* Start REC is clickable after an acquisition was stopped, none running
C14_Witness ==
    /\ ~gui.button_startrec_disabled
    /\ ret.op = "stopacq_fct"
    /\ ret.exc = "none"
    /\ ~clients[self.mu32].running

\* a step that is a call of sos_fct with the password field empty
C15_EmptyPasswdCall ==
    /\ gui.passwd_value = ""
    /\ gui'.passwd_value = ""
    /\ ret'.op = "sos_fct"
    /\ tasks' = tasks
\* C15: sos_fct called with an empty password returns normally having
\* opened no SSH session, executed no command and changed no widget.
C15_EmptyPasswdNoEffect ==
    [][C15_EmptyPasswdCall =>
          /\ ret'.exc = "none"
          /\ ret'.failed = ""
          /\ ret'.command = ""
          /\ ret'.printed =
                "ERROR: please indicate the password to launch the command."
          /\ gui' = gui
          /\ ssh' = ssh
          /\ self' = self
          /\ clients' = clients]_vars
\* an admin button was clicked with the password field empty
C15_Witness ==
    /\ ret.op = "sos_fct"
    /\ gui.passwd_value = ""
    /\ ret.printed = "ERROR: please indicate the password to launch the command."
\* C16: no SSH session opened by gui_server.sos or array.sos_fct is left open
\* when the call ends, a failing or raising remote command included.
C16_SessionsClosed ==
    ret.op \in {"sos", "sos_fct"} => ssh = 0

\* a step that is a call of sos_fct with a password, past the SSH connect
C20_AdminCall ==
    /\ gui.passwd_value # ""
    /\ gui'.passwd_value = gui.passwd_value
    /\ ret'.op = "sos_fct"
    /\ ret'.failed # "connect"
    /\ tasks' = tasks
\* the two admin buttons after the Stop server / Start server branch
C20_StopFlags(g) ==
    ~g.button_start_srv_disabled /\ g.button_stop_srv_disabled
C20_StartFlags(g) ==
    g.button_start_srv_disabled /\ ~g.button_stop_srv_disabled
\* C20: an admin action with a password takes its command from the label of
\* the button clicked and flips the admin buttons whether or not the command
\* then runs: Stop server gives 'systemctl stop megamicros_server', start
\* enabled and stop disabled; Start server gives 'systemctl start
\* megamicros_server', start disabled and stop enabled; after a status probe
\* or an admin action that returned, exactly one admin button is enabled.
C20_AdminAction ==
    /\ [][C20_AdminCall =>
             IF ~gui.button_stop_srv_disabled
             THEN /\ C20_StopFlags(gui')
                  /\ ret'.exc = "none" =>
                        ret'.command = "systemctl stop megamicros_server"
             ELSE /\ C20_StartFlags(gui')
                  /\ ret'.exc = "none" =>
                        ret'.command = "systemctl start megamicros_server"]_vars
    /\ []((ret.op \in {"sos", "sos_fct"} /\ ret.exc = "none") =>
             (gui.button_start_srv_disabled # gui.button_stop_srv_disabled))
\* Start server was clicked and its command sent
C20_Witness ==
    /\ ret.op = "sos_fct"
    /\ ret.command = "systemctl start megamicros_server"
    /\ C20_StartFlags(gui)

\* the playback view: Play enabled, Stop enabled
PlayButtons(g) ==
    << ~g.button_startplay_disabled, ~g.button_stopplay_disabled >>
\* C17: the playback view starts with Play and Stop disabled; after
\* update_data_info or stop_read Play is enabled and Stop disabled; after
\* start_read Play is disabled and Stop enabled; Play and Stop are never
\* enabled together; the blocksize field is locked exactly while Stop is
\* enabled (Playing).
C17_PlayView ==
    /\ ret.op = "__init__" => PlayButtons(gui_play) = <<FALSE, FALSE>>
    /\ ret.view \in {"update_data_info", "stop_read"} =>
          PlayButtons(gui_play) = <<TRUE, FALSE>>
    /\ ret.view = "start_read" => PlayButtons(gui_play) = <<FALSE, TRUE>>
    /\ PlayButtons(gui_play) # <<TRUE, TRUE>>
    /\ gui_play.blocksize_disabled <=> ~gui_play.button_stopplay_disabled
\* back to Loaded after a playback was started and stopped
C17_Witness ==
    /\ ret.view = "stop_read"
    /\ PlayButtons(gui_play) = <<TRUE, FALSE>>
    /\ ~gui_play.blocksize_disabled
    /\ player.blocksize # 0

\* a step that is a successful loadFile_fct while the view shows Playing
C18_LoadWhilePlaying ==
    /\ ~gui_play.button_stopplay_disabled
    /\ Len(h5files') = Len(h5files) + 1
\* C18: a file selected while Playing is loaded: the controller takes a new
\* delegate, the running one is left running, the view goes to Loaded; and
\* no operation changes a delegate the controller does not hold, so the
\* playback that was running can no longer be stopped.
C18_LoadOrphansPlayback ==
    /\ [][C18_LoadWhilePlaying =>
             /\ ret'.op = "loadFile_fct"
             /\ ret'.exc = "none"
             /\ player'.mu32 = Len(h5files')
             /\ player'.mu32 # player.mu32
             /\ h5files[player.mu32].running
             /\ h5files'[player.mu32].running
             /\ PlayButtons(gui_play') = <<TRUE, FALSE>>
             /\ ~gui_play'.blocksize_disabled]_vars
    /\ [][\A i \in 1..Len(h5files) :
             i # player.mu32 => h5files'[i] = h5files[i]]_vars
\* a playback is running on a delegate the controller holds no more
C18_Witness ==
    /\ player.mu32 # 0
    /\ \E i \in 1..Len(h5files) : i # player.mu32 /\ h5files[i].running
    /\ ~h5files[player.mu32].running
    /\ PlayButtons(gui_play) = <<TRUE, FALSE>>

\* C19: a callback that calls the delegate (startacq_fct, stopacq_fct,
\* startrec_fct, stoprec_fct, play_fct, stopplay_fct, read) returns normally
\* whatever the delegate does.
C19_NoReraise ==
    ret.op \in {"startacq_fct", "stopacq_fct", "startrec_fct", "stoprec_fct",
                "play_fct", "stopplay_fct", "read"} =>
        ret.exc = "none"

\* enabled-state of <<StartAcq, StopAcq, StartRec, StopRec>>
AcqButtons(g) ==
    << ~g.button_startacq_disabled, ~g.button_stopacq_disabled,
       ~g.button_startrec_disabled, ~g.button_stoprec_disabled >>
\* C21: in every state the enabled flags of <<StartAcq, StopAcq, StartRec,
\* StopRec>> are all off, only the two start buttons, only StopAcq, or only
\* StopRec: the start buttons go together and never with a stop button.
C21_FourPatterns ==
    AcqButtons(gui) \in { <<FALSE, FALSE, FALSE, FALSE>>,
                          <<TRUE, FALSE, TRUE, FALSE>>,
                          <<FALSE, TRUE, FALSE, FALSE>>,
                          <<FALSE, FALSE, FALSE, TRUE>> }
\* SOS was pressed during a recording: only Stop REC is left enabled
C21_Witness ==
    /\ ret.op = "sos"
    /\ SosPressed
    /\ AcqButtons(gui) = <<FALSE, FALSE, FALSE, TRUE>>

\* the delegate the controller holds has an active run
C22_Running == self.mu32 # 0 /\ clients[self.mu32].running
\* C22: a stop button is enabled only if the controller's delegate has an
\* active run, and a start button only if it has none.
C22_ViewAgreesWithDelegate ==
    /\ (~gui.button_stopacq_disabled \/ ~gui.button_stoprec_disabled)
          => C22_Running
    /\ (~gui.button_startacq_disabled \/ ~gui.button_startrec_disabled)
          => ~C22_Running

\* a settings task has not run to its end yet
C23_FetchPending ==
    \E i \in 1..Len(tasks) : tasks[i].state \in {"created", "awaiting", "resolved"}
\* a step that is a click on SOS
C23_SosStep ==
    /\ ret'.op = "sos"
    /\ gui'.status_value = "SOS mode. For admin only."
    /\ gui'.passwd_value = gui.passwd_value
    /\ tasks' = tasks
    /\ self' = self
    /\ clients' = clients
\* the five primary buttons are disabled and no task can enable one
C23_DeadEnd ==
    /\ SosPressed
    /\ Buttons(gui) = <<FALSE, FALSE, FALSE, FALSE, FALSE>>
    /\ ~C23_FetchPending
\* C23: SOS pressed in Idle or ReadyToStart with no settings fetch pending
\* disables the five primary buttons, and nothing enables one of them again;
\* SOS pressed while Acquiring or Recording leaves the stop button enabled,
\* and the stop that follows enables StartAcq and StartRec again.
C23_SosDeadEnd ==
    [][/\ (C23_SosStep /\ Buttons(gui) \in {IdleRow, ReadyToStartRow}
             /\ ~C23_FetchPending) => C23_DeadEnd'
       /\ C23_DeadEnd => C23_DeadEnd'
       /\ (C23_SosStep /\ Buttons(gui) \in {AcquiringRow, RecordingRow})
             => Buttons(gui') = Buttons(gui)
       /\ (SosPressed /\ Buttons(gui) \in {AcquiringRow, RecordingRow}
             /\ ret'.op \in {"stopacq_fct", "stoprec_fct"}
             /\ ret'.exc = "none" /\ ret' # ret)
             => Buttons(gui') = ReadyToStartRow]_vars
\* the dead end, reached from ReadyToStart, with an admin action after it
C23_Witness ==
    /\ C23_DeadEnd
    /\ ReadyRan
    /\ ret.op = "sos_fct"
====
